---- MODULE Spec2Model ----
(***************************************************************************)
(* A model of the MCP configuration layer of skills-sync                   *)
(* (src/src/agents_sync/mcp.py): reading every platform's native config    *)
(* into the canonical (Claude-shaped) server map, writing a canonical map  *)
(* into a platform's native file, counting and cleaning.                   *)
(*                                                                         *)
(* A Python dict that the code iterates (a server map) is an ordered dict: *)
(* a sequence of [name, config] records with distinct names.  A server     *)
(* config and a parsed top-level document are functions from field names   *)
(* to values.  A file is a record [kind, data, readable, writable].        *)
(***************************************************************************)
EXTENDS Integers, Sequences, FiniteSets, TLC

\* ------------------------------------------------------------------ bounds

\* longest args list of a configured server
MaxArgs == 1
\* most plugin .mcp.json files under the plugins root
MaxPlugins == 2

\* ------------------------------------------------------------- platforms

CLAUDE_CODE == "claude-code"
OPENCODE == "opencode"
CODEX == "codex"
CURSOR == "cursor"
WINDSURF == "windsurf"

Platform == {CLAUDE_CODE, OPENCODE, CODEX, CURSOR, WINDSURF}

\* the top-level key each platform's reader, writer, counter and cleaner use
OwnedKey(p) ==
  CASE p = CODEX -> "mcp_servers"
    [] p = OPENCODE -> "mcp"
    [] OTHER -> "mcpServers"

\* the file name a Cursor/Windsurf source description shows (global_path.name)
GlobalName(p) ==
  CASE p = CLAUDE_CODE -> ".claude.json"
    [] p = CODEX -> "config.toml"
    [] p = OPENCODE -> "opencode.json"
    [] p = CURSOR -> "mcp.json"
    [] OTHER -> "mcp_config.json"

\* ---------------------------------------------------------- dict helpers

EmptyDict == [k \in {} |-> k]

Has(d, k) == k \in DOMAIN d

Get(d, k, default) == IF k \in DOMAIN d THEN d[k] ELSE default

Put(d, k, v) == [x \in (DOMAIN d) \cup {k} |-> IF x = k THEN v ELSE d[x]]

Del(d, k) == [x \in (DOMAIN d) \ {k} |-> d[x]]

\* an ordered dict of servers: <<[name |-> n, config |-> c], ...>>
Names(m) == {m[i].name : i \in 1..Len(m)}

Lookup(m, n) == (CHOOSE i \in 1..Len(m) : m[i].name = n)

ConfigOf(m, n) == m[Lookup(m, n)].config

\* servers[name] = config: in place when the name is there, appended otherwise
SetItem(m, n, c) ==
  IF n \in Names(m)
    THEN [m EXCEPT ![Lookup(m, n)] = [name |-> n, config |-> c]]
    ELSE Append(m, [name |-> n, config |-> c])

\* the dict as a function of its names (dict equality ignores order)
AsDict(m) == [n \in Names(m) |-> ConfigOf(m, n)]

\* ------------------------------------------------------------ file system

\* a path that does not exist
Absent == [kind |-> "absent", data |-> EmptyDict, readable |-> TRUE, writable |-> TRUE]

\* a file whose text is not valid JSON / TOML
Malformed == [kind |-> "malformed", data |-> EmptyDict, readable |-> TRUE, writable |-> TRUE]

\* a file holding the parsed document d
Doc(d) == [kind |-> "ok", data |-> d, readable |-> TRUE, writable |-> TRUE]

Exists(f) == f.kind # "absent"

\* open(path) then json.load / tomllib.load: IOError when the file cannot be
\* opened, a decode error when its text does not parse
Load(f) ==
  IF ~f.readable THEN [status |-> "io", data |-> EmptyDict]
  ELSE IF f.kind # "ok" THEN [status |-> "decode", data |-> EmptyDict]
  ELSE [status |-> "ok", data |-> f.data]

NoServers == [servers |-> <<>>, sources |-> <<>>]

\* one source description per server of g, in g's order
SourcesOf(g, origin) == [i \in 1..Len(g) |-> [name |-> g[i].name, from |-> origin]]

\* ------------------------------------------------------------------ reads

\* MergePlugin without "if name not in servers": a later source replaces an entry
RECURSIVE MergePluginOverwriting(_, _, _, _)
MergePluginOverwriting(acc, items, plugin, i) ==
  IF i > Len(items) THEN acc
  ELSE MergePluginOverwriting(
         [servers |-> SetItem(acc.servers, items[i].name, items[i].config),
          sources |-> Append(acc.sources, [name |-> items[i].name, from |-> plugin])],
         items, plugin, i + 1)

\* for name, config in data.items(): if name not in servers: add it
RECURSIVE MergePlugin(_, _, _, _)
MergePlugin(acc, items, plugin, i) ==
  IF i > Len(items) THEN acc
  ELSE IF items[i].name \in Names(acc.servers)
    THEN MergePlugin(acc, items, plugin, i + 1)
    ELSE MergePlugin(
           [servers |-> Append(acc.servers, items[i]),
            sources |-> Append(acc.sources, [name |-> items[i].name, from |-> plugin])],
           items, plugin, i + 1)

\* ReadPlugins with the try around the whole loop: the first plugin file that
\* fails to load ends the reading of plugin files
RECURSIVE ReadPluginsUntilError(_, _, _)
ReadPluginsUntilError(acc, pl, i) ==
  IF i > Len(pl) THEN acc
  ELSE IF Load(pl[i]).status # "ok" THEN acc
  ELSE ReadPluginsUntilError(MergePlugin(acc, Load(pl[i]).data, pl[i].plugin, 1), pl, i + 1)

\* the loop over plugins_path.rglob(".mcp.json"), in discovery order
RECURSIVE ReadPlugins(_, _, _)
ReadPlugins(acc, pl, i) ==
  IF i > Len(pl) THEN acc
  ELSE IF Load(pl[i]).status # "ok"
    THEN ReadPlugins(acc, pl, i + 1)
    ELSE ReadPlugins(MergePlugin(acc, Load(pl[i]).data, pl[i].plugin, 1), pl, i + 1)

\* the global file's mcpServers, as they are
ReadGlobalJson(f, origin) ==
  IF Exists(f) /\ Load(f).status = "ok"
    THEN LET g == Get(Load(f).data, "mcpServers", <<>>)
         IN  [servers |-> g, sources |-> SourcesOf(g, origin)]
    ELSE NoServers

_read_claude_mcp(fs, pl) ==
  ReadPlugins(ReadGlobalJson(fs[CLAUDE_CODE], "~/.claude.json"), pl, 1)

_read_cursor_windsurf_mcp(p, fs) == ReadGlobalJson(fs[p], GlobalName(p))

\* CodexToClaude that looks for command before url
CodexToClaudeCommandFirst(config) ==
  IF Has(config, "command") \/ ~Has(config, "url")
    THEN (IF Has(config, "command") THEN ("command" :> config["command"]) ELSE EmptyDict)
         @@ (IF Has(config, "args") THEN ("args" :> config["args"]) ELSE EmptyDict)
         @@ (IF Has(config, "env") THEN ("env" :> config["env"]) ELSE EmptyDict)
    ELSE ("type" :> "http") @@ ("url" :> config["url"])
         @@ (IF Has(config, "http_headers")
               THEN ("headers" :> config["http_headers"]) ELSE EmptyDict)

\* one Codex table to the Claude shape
CodexToClaude(config) ==
  IF Has(config, "url")
    THEN ("type" :> "http") @@ ("url" :> config["url"])
         @@ (IF Has(config, "http_headers")
               THEN ("headers" :> config["http_headers"]) ELSE EmptyDict)
    ELSE (IF Has(config, "command") THEN ("command" :> config["command"]) ELSE EmptyDict)
         @@ (IF Has(config, "args") THEN ("args" :> config["args"]) ELSE EmptyDict)
         @@ (IF Has(config, "env") THEN ("env" :> config["env"]) ELSE EmptyDict)

NonEmptyConfig(e) == DOMAIN e.config # {}

\* _read_codex_mcp that records a source for every table, kept or not
ReadCodexSourcingAll(fs) ==
  LET f == fs[CODEX] IN
  IF Exists(f) /\ Load(f).status = "ok"
    THEN LET g == Get(Load(f).data, "mcp_servers", <<>>)
             conv == [i \in 1..Len(g) |->
                        [name |-> g[i].name, config |-> CodexToClaude(g[i].config)]]
         IN  [servers |-> SelectSeq(conv, NonEmptyConfig),
              sources |-> SourcesOf(conv, "config.toml")]
    ELSE NoServers

_read_codex_mcp(fs) ==
  LET f == fs[CODEX] IN
  IF Exists(f) /\ Load(f).status = "ok"
    THEN LET g == Get(Load(f).data, "mcp_servers", <<>>)
             conv == [i \in 1..Len(g) |->
                        [name |-> g[i].name, config |-> CodexToClaude(g[i].config)]]
             kept == SelectSeq(conv, NonEmptyConfig)
         IN  [servers |-> kept, sources |-> SourcesOf(kept, "config.toml")]
    ELSE NoServers

\* OpenCodeToClaude that keeps the whole command array as args
OpenCodeToClaudeUnsplit(config) ==
  IF Get(config, "type", "local") = "local"
    THEN LET command_list == Get(config, "command", <<>>) IN
         ("command" :> (IF Len(command_list) > 0 THEN command_list[1] ELSE ""))
         @@ ("args" :> command_list)
         @@ (IF Has(config, "environment")
               THEN ("env" :> config["environment"]) ELSE EmptyDict)
    ELSE ("type" :> "http") @@ ("url" :> Get(config, "url", ""))
         @@ (IF Has(config, "headers") THEN ("headers" :> config["headers"]) ELSE EmptyDict)

\* one OpenCode entry to the Claude shape
OpenCodeToClaude(config) ==
  IF Get(config, "type", "local") = "local"
    THEN LET command_list == Get(config, "command", <<>>) IN
         ("command" :> (IF Len(command_list) > 0 THEN command_list[1] ELSE ""))
         @@ ("args" :> (IF Len(command_list) > 1 THEN Tail(command_list) ELSE <<>>))
         @@ (IF Has(config, "environment")
               THEN ("env" :> config["environment"]) ELSE EmptyDict)
    ELSE ("type" :> "http") @@ ("url" :> Get(config, "url", ""))
         @@ (IF Has(config, "headers") THEN ("headers" :> config["headers"]) ELSE EmptyDict)

_read_opencode_mcp(fs) ==
  LET f == fs[OPENCODE] IN
  IF Exists(f) /\ Load(f).status = "ok"
    THEN LET g == Get(Load(f).data, "mcp", <<>>)
             conv == [i \in 1..Len(g) |->
                        [name |-> g[i].name, config |-> OpenCodeToClaude(g[i].config)]]
         IN  [servers |-> conv, sources |-> SourcesOf(conv, "opencode.json")]
    ELSE NoServers

read_mcp_servers(p, fs, pl) ==
  CASE p = CLAUDE_CODE -> _read_claude_mcp(fs, pl)
    [] p = CODEX -> _read_codex_mcp(fs)
    [] p = OPENCODE -> _read_opencode_mcp(fs)
    [] p \in {CURSOR, WINDSURF} -> _read_cursor_windsurf_mcp(p, fs)
    [] OTHER -> NoServers

\* every reader wraps each file it opens in try / except (decode error, IOError)
ReadCaughtOnlyIO == {"io"}

\* the errors a reader's except clause swallows (mcp.py:53, 68, 88, 125, 162)
ReadCaught == {"decode", "io"}

\* an exception leaves read_mcp_servers(p): some file it opens raises an error
\* its except clause does not name
read_raises(p, fs, pl) ==
  \/ Exists(fs[p]) /\ Load(fs[p]).status \notin {"ok"} \cup ReadCaught
  \/ /\ p = CLAUDE_CODE
     /\ \E i \in 1..Len(pl) : Load(pl[i]).status \notin {"ok"} \cup ReadCaught

\* ----------------------------------------------------------------- writes

\* LoadForWrite that never reads the existing file: the write replaces the document
LoadForWriteFresh(f) == [status |-> "ok", data |-> EmptyDict]

\* data = {}; if path.exists(): try: data = load(f) except DecodeError: pass
\* (an IOError of open() is not caught here)
LoadForWrite(f) ==
  IF ~Exists(f) \/ Load(f).status = "decode"
    THEN [status |-> "ok", data |-> EmptyDict]
    ELSE Load(f)

\* with open(path, 'w') as f: dump(data, f)
Dump(f, data) ==
  IF Exists(f) /\ ~f.writable
    THEN [status |-> "io", file |-> f]
    ELSE [status |-> "ok",
          file |-> [kind |-> "ok", data |-> data,
                    readable |-> (IF Exists(f) THEN f.readable ELSE TRUE),
                    writable |-> TRUE]]

\* WriteKey that adds the new servers to the ones the key already holds
WriteKeyMerging(f, key, value) ==
  LET l == LoadForWrite(f)
      old == Get(l.data, key, <<>>)
      kept == SelectSeq(old, LAMBDA e : e.name \notin Names(value))
  IN  IF l.status # "ok" THEN [status |-> "io", file |-> f]
      ELSE Dump(f, Put(l.data, key, kept \o value))

\* read-merge-write of one top-level key
WriteKey(f, key, value) ==
  LET l == LoadForWrite(f) IN
  IF l.status # "ok" THEN [status |-> "io", file |-> f]
  ELSE Dump(f, Put(l.data, key, value))

_write_claude_mcp(f, servers) == WriteKey(f, "mcpServers", servers)

_write_cursor_windsurf_mcp(f, servers) == WriteKey(f, "mcpServers", servers)

\* one Claude-shaped config to a Codex table
ClaudeToCodex(config) ==
  IF Get(config, "type", "stdio") \in {"sse", "http"}
    THEN (IF Has(config, "url") THEN ("url" :> config["url"]) ELSE EmptyDict)
         @@ (IF Has(config, "headers")
               THEN ("http_headers" :> config["headers"]) ELSE EmptyDict)
    ELSE (IF Has(config, "command") THEN ("command" :> config["command"]) ELSE EmptyDict)
         @@ (IF Has(config, "args") THEN ("args" :> config["args"]) ELSE EmptyDict)
         @@ (IF Has(config, "env") THEN ("env" :> config["env"]) ELSE EmptyDict)

\* CodexServers without "if codex_config": empty tables are written too
CodexServersUnfiltered(servers) ==
  [i \in 1..Len(servers) |->
     [name |-> servers[i].name, config |-> ClaudeToCodex(servers[i].config)]]

CodexServers(servers) ==
  SelectSeq([i \in 1..Len(servers) |->
               [name |-> servers[i].name, config |-> ClaudeToCodex(servers[i].config)]],
            NonEmptyConfig)

_write_codex_mcp(f, servers) == WriteKey(f, "mcp_servers", CodexServers(servers))

\* ClaudeToOpenCode that leaves the args out of the command array
ClaudeToOpenCodeWithoutArgs(config) ==
  IF Get(config, "type", "stdio") = "stdio"
    THEN ("type" :> "local")
         @@ ("command" :> <<Get(config, "command", "")>>)
         @@ ("enabled" :> TRUE)
         @@ (IF Has(config, "env") THEN ("environment" :> config["env"]) ELSE EmptyDict)
    ELSE ("type" :> "remote") @@ ("url" :> Get(config, "url", ""))
         @@ ("enabled" :> TRUE)
         @@ (IF Has(config, "headers") THEN ("headers" :> config["headers"]) ELSE EmptyDict)

\* ClaudeToOpenCode that takes enabled from the input entry when it has one
ClaudeToOpenCodeKeepingEnabled(config) ==
  IF Get(config, "type", "stdio") = "stdio"
    THEN ("type" :> "local")
         @@ ("command" :> (<<Get(config, "command", "")>> \o Get(config, "args", <<>>)))
         @@ ("enabled" :> Get(config, "enabled", TRUE))
         @@ (IF Has(config, "env") THEN ("environment" :> config["env"]) ELSE EmptyDict)
    ELSE ("type" :> "remote") @@ ("url" :> Get(config, "url", ""))
         @@ ("enabled" :> Get(config, "enabled", TRUE))
         @@ (IF Has(config, "headers") THEN ("headers" :> config["headers"]) ELSE EmptyDict)

\* one Claude-shaped config to an OpenCode entry
ClaudeToOpenCode(config) ==
  IF Get(config, "type", "stdio") = "stdio"
    THEN ("type" :> "local")
         @@ ("command" :> (<<Get(config, "command", "")>> \o Get(config, "args", <<>>)))
         @@ ("enabled" :> TRUE)
         @@ (IF Has(config, "env") THEN ("environment" :> config["env"]) ELSE EmptyDict)
    ELSE ("type" :> "remote") @@ ("url" :> Get(config, "url", ""))
         @@ ("enabled" :> TRUE)
         @@ (IF Has(config, "headers") THEN ("headers" :> config["headers"]) ELSE EmptyDict)

OpenCodeServers(servers) ==
  [i \in 1..Len(servers) |->
     [name |-> servers[i].name, config |-> ClaudeToOpenCode(servers[i].config)]]

_write_opencode_mcp(f, servers) == WriteKey(f, "mcp", OpenCodeServers(servers))

\* global_path.parent.mkdir(parents=True, exist_ok=True): the directory is
\* there afterwards, or the call raises an OSError
Mkdir(d) ==
  IF d = "blocked" THEN [status |-> "io", dir |-> d]
  ELSE [status |-> "ok", dir |-> "present"]

\* the errors write_mcp_servers turns into False: "except IOError" around the
\* platform's writer
WriteCaught == {"io"}

\* write_mcp_servers that makes the parent directory before it looks at dry_run
WriteMakingDirFirst(p, servers, dry_run, fs, ds) ==
  IF Mkdir(ds[p]).status # "ok"
    THEN [ret |-> FALSE, raised |-> TRUE, files |-> fs, dirs |-> ds]
  ELSE LET made == [ds EXCEPT ![p] = Mkdir(ds[p]).dir]
           w == CASE p = CLAUDE_CODE -> _write_claude_mcp(fs[p], servers)
                  [] p = CODEX -> _write_codex_mcp(fs[p], servers)
                  [] p = OPENCODE -> _write_opencode_mcp(fs[p], servers)
                  [] OTHER -> _write_cursor_windsurf_mcp(fs[p], servers)
       IN  IF dry_run THEN [ret |-> TRUE, raised |-> FALSE, files |-> fs, dirs |-> made]
           ELSE IF w.status = "ok"
             THEN [ret |-> TRUE, raised |-> FALSE,
                   files |-> [fs EXCEPT ![p] = w.file], dirs |-> made]
             ELSE [ret |-> FALSE, raised |-> w.status \notin WriteCaught,
                   files |-> fs, dirs |-> made]

\* the value, the exception, the files and the directories after
\* write_mcp_servers(p, servers, dry_run); the mkdir stands before the try
write_mcp_servers(p, servers, dry_run, fs, ds) ==
  IF dry_run THEN [ret |-> TRUE, raised |-> FALSE, files |-> fs, dirs |-> ds]
  ELSE IF Mkdir(ds[p]).status # "ok"
    THEN [ret |-> FALSE, raised |-> TRUE, files |-> fs, dirs |-> ds]
  ELSE LET made == [ds EXCEPT ![p] = Mkdir(ds[p]).dir]
           w == CASE p = CLAUDE_CODE -> _write_claude_mcp(fs[p], servers)
                  [] p = CODEX -> _write_codex_mcp(fs[p], servers)
                  [] p = OPENCODE -> _write_opencode_mcp(fs[p], servers)
                  [] OTHER -> _write_cursor_windsurf_mcp(fs[p], servers)
       IN  IF w.status = "ok"
             THEN [ret |-> TRUE, raised |-> FALSE,
                   files |-> [fs EXCEPT ![p] = w.file], dirs |-> made]
             ELSE [ret |-> FALSE, raised |-> w.status \notin WriteCaught,
                   files |-> fs, dirs |-> made]

\* --------------------------------------------------------- count and clean

\* _count_mcp_servers that counts what read_mcp_servers returns on every platform
CountByReading(p, fs, pl) ==
  IF ~Exists(fs[p]) THEN 0
  ELSE Len(read_mcp_servers(p, fs, pl).servers)

_count_mcp_servers(p, fs, pl) ==
  IF ~Exists(fs[p]) THEN 0
  ELSE IF p = CLAUDE_CODE THEN Len(_read_claude_mcp(fs, pl).servers)
  ELSE IF Load(fs[p]).status # "ok" THEN 0
  ELSE Len(Get(Load(fs[p]).data, OwnedKey(p), <<>>))

\* the errors the except clause of _count_mcp_servers swallows
CountCaught == {"decode", "io"}

\* an exception leaves _count_mcp_servers(p)
_count_raises(p, fs, pl) ==
  /\ Exists(fs[p])
  /\ IF p = CLAUDE_CODE THEN read_raises(p, fs, pl)
     ELSE Load(fs[p]).status \notin {"ok"} \cup CountCaught

\* CleanGlobal with "del data[key]" not guarded by "if key in data": a KeyError
CleanGlobalUnguarded(f, key) ==
  IF ~Exists(f) THEN [status |-> "ok", file |-> f]
  ELSE IF Load(f).status # "ok" THEN [status |-> Load(f).status, file |-> f]
  ELSE IF ~Has(Load(f).data, key) THEN [status |-> "key", file |-> f]
  ELSE Dump(f, Del(Load(f).data, key))

\* load, delete the owned key when it is there, dump; the status is the error
\* that the load or the dump raises, and the file is rewritten only when the
\* key was there
CleanGlobal(f, key) ==
  IF ~Exists(f) THEN [status |-> "ok", file |-> f]
  ELSE IF Load(f).status # "ok" THEN [status |-> Load(f).status, file |-> f]
  ELSE IF ~Has(Load(f).data, key) THEN [status |-> "ok", file |-> f]
  ELSE Dump(f, Del(Load(f).data, key))

\* the errors the except clause of clean_mcp_servers swallows
CleanCaught == {"decode", "io"}

\* clean_mcp_servers without "or removed_count == 0": it goes on to the deletion
\* when it counted nothing
CleanWithoutEarlyReturn(p, dry_run, fs, pl) ==
  IF _count_raises(p, fs, pl)
    THEN [ret |-> 0, raised |-> TRUE, files |-> fs, plugins |-> pl]
  ELSE IF dry_run
    THEN [ret |-> _count_mcp_servers(p, fs, pl), raised |-> FALSE,
          files |-> fs, plugins |-> pl]
    ELSE LET c == CleanGlobal(fs[p], OwnedKey(p)) IN
         [ret |-> _count_mcp_servers(p, fs, pl),
          raised |-> c.status \notin {"ok"} \cup CleanCaught,
          files |-> [fs EXCEPT ![p] = c.file],
          plugins |-> IF p = CLAUDE_CODE /\ c.status = "ok" THEN <<>> ELSE pl]

\* clean_mcp_servers that counts when it returns, after the deletion, instead
\* of returning the count it took first
CleanCountingLast(p, dry_run, fs, pl) ==
  IF _count_raises(p, fs, pl)
    THEN [ret |-> 0, raised |-> TRUE, files |-> fs, plugins |-> pl]
  ELSE IF dry_run \/ _count_mcp_servers(p, fs, pl) = 0
    THEN [ret |-> _count_mcp_servers(p, fs, pl), raised |-> FALSE,
          files |-> fs, plugins |-> pl]
    ELSE LET c == CleanGlobal(fs[p], OwnedKey(p))
             after == [fs EXCEPT ![p] = c.file]
             left == IF p = CLAUDE_CODE /\ c.status = "ok" THEN <<>> ELSE pl
         IN  [ret |-> _count_mcp_servers(p, after, left),
              raised |-> c.status \notin {"ok"} \cup CleanCaught,
              files |-> after, plugins |-> left]

\* the value, the exception, the files and the plugin files after
\* clean_mcp_servers(p, dry_run); an error in the global file ends the call
\* before the plugin files are unlinked
clean_mcp_servers(p, dry_run, fs, pl) ==
  LET removed_count == _count_mcp_servers(p, fs, pl) IN
  IF _count_raises(p, fs, pl)
    THEN [ret |-> 0, raised |-> TRUE, files |-> fs, plugins |-> pl]
  ELSE IF dry_run \/ removed_count = 0
    THEN [ret |-> removed_count, raised |-> FALSE, files |-> fs, plugins |-> pl]
    ELSE LET c == CleanGlobal(fs[p], OwnedKey(p)) IN
         [ret |-> removed_count,
          raised |-> c.status \notin {"ok"} \cup CleanCaught,
          files |-> [fs EXCEPT ![p] = c.file],
          plugins |-> IF p = CLAUDE_CODE /\ c.status = "ok" THEN <<>> ELSE pl]

\* ------------------------------------------------------- bounded contents

ServerNames == {"x", "y"}

ArgLists == UNION {[1..n -> {"--json"}] : n \in 0..MaxArgs}

F(k, v) == k :> v

\* configs of a Claude / Cursor / Windsurf file (the canonical shape): stdio,
\* remote with and without type, and the shapes a hand-edited file can hold
ClaudeConfigs ==
  {F("command", "wx"), F("command", ""), F("type", "stdio") @@ F("command", "wx")}
  \cup {F("command", "wx") @@ F("args", a) : a \in ArgLists}
  \cup {F("command", "wx") @@ F("args", a) @@ F("env", "E") : a \in ArgLists \ {<<>>}}
  \cup {F("type", t) @@ F("url", "U") : t \in {"http", "sse"}}
  \cup {F("type", "http") @@ F("url", "U") @@ F("headers", "H")}
  \cup {F("url", "U"), F("command", "wx") @@ F("url", "U"), F("type", "http"),
        F("args", <<"--json">>), EmptyDict}

\* tables of a Codex config.toml
CodexConfigs ==
  {F("command", "wx"), F("command", "")}
  \cup {F("command", "wx") @@ F("args", a) : a \in ArgLists}
  \cup {F("command", "wx") @@ F("args", a) @@ F("env", "E") : a \in ArgLists \ {<<>>}}
  \cup {F("url", "U"), F("url", "U") @@ F("http_headers", "H"),
        F("url", "U") @@ F("command", "wx"), F("args", <<"--json">>),
        F("startup_timeout_sec", "T"), EmptyDict}

\* entries of an opencode.json
OpenCodeConfigs ==
  {F("type", "local") @@ F("command", <<"wx">> \o a) @@ F("enabled", TRUE) : a \in ArgLists}
  \cup {F("type", "local") @@ F("command", <<"wx">> \o a) @@ F("enabled", TRUE)
          @@ F("environment", "E") : a \in ArgLists \ {<<>>}}
  \cup {F("command", <<"wx">>), F("type", "local") @@ F("command", <<>>),
        F("type", "local") @@ F("command", <<"wx">>) @@ F("enabled", FALSE),
        F("type", "local") @@ F("command", <<"wx", "-a", "-b">>) @@ F("enabled", TRUE),
        F("type", "remote") @@ F("url", "U") @@ F("enabled", TRUE),
        F("type", "remote") @@ F("url", "U") @@ F("headers", "H") @@ F("enabled", TRUE),
        F("type", "remote"), EmptyDict}

NativeConfigs(p) ==
  CASE p = CODEX -> CodexConfigs
    [] p = OPENCODE -> OpenCodeConfigs
    [] OTHER -> ClaudeConfigs

\* a second server beside the first: one stdio, one remote, one empty
SecondConfigs(p) ==
  CASE p = CODEX -> {F("command", "wy"), F("url", "V"), EmptyDict}
    [] p = OPENCODE -> {F("type", "local") @@ F("command", <<"wy">>) @@ F("enabled", TRUE),
                        F("type", "remote") @@ F("url", "V") @@ F("enabled", TRUE)}
    [] OTHER -> {F("command", "wy"), F("type", "http") @@ F("url", "V"), EmptyDict}

Item(n, c) == [name |-> n, config |-> c]

\* ordered server maps of at most two servers
ServerMaps(first, second) ==
  {<<>>}
  \cup {<<Item(n, c)>> : n \in ServerNames, c \in first}
  \cup {<<Item(q[1], c1), Item(q[2], c2)>> :
          q \in {r \in ServerNames \X ServerNames : r[1] # r[2]},
          c1 \in first, c2 \in second}

\* a sibling top-level key the layer does not own (a Codex [other] table)
Siblings == {EmptyDict, F("other", "S")}

Documents(p) ==
  Siblings
  \cup {sib @@ F(OwnedKey(p), m) :
          sib \in Siblings, m \in ServerMaps(NativeConfigs(p), SecondConfigs(p))}

SampleDoc(p) == F("other", "S") @@ F(OwnedKey(p), <<Item("x", CHOOSE c \in SecondConfigs(p) : TRUE)>>)

\* the states of one platform's global file
FilePool(p) ==
  {Absent, Malformed,
   [Doc(SampleDoc(p)) EXCEPT !.readable = FALSE],
   [Doc(SampleDoc(p)) EXCEPT !.writable = FALSE]}
  \cup {Doc(d) : d \in Documents(p)}

\* plugin directories, in the order rglob discovers their .mcp.json
PluginDirs == <<"alpha", "beta", "gamma", "delta">>

\* the states of the i-th discovered plugin file: its top level is the server map
PluginPool(i) ==
  LET own == F("command", PluginDirs[i])
      mk(kind, data, readable) ==
        [plugin |-> PluginDirs[i], kind |-> kind, data |-> data, readable |-> readable]
  IN  {mk("malformed", <<>>, TRUE), mk("ok", <<Item("x", own)>>, FALSE)}
      \cup {mk("ok", m, TRUE) :
              m \in {<<>>, <<Item("x", own)>>, <<Item("y", own)>>,
                     <<Item("y", F("type", "http") @@ F("url", PluginDirs[i])), Item("x", own)>>}}

PluginSeqs ==
  UNION {{pl \in [1..n -> UNION {PluginPool(i) : i \in 1..n}] :
            \A i \in 1..n : pl[i] \in PluginPool(i)} : n \in 0..MaxPlugins}

\* the global ~/.claude.json beside plugin files
ClaudeGlobalPool ==
  {Absent, Malformed, [Doc(SampleDoc(CLAUDE_CODE)) EXCEPT !.readable = FALSE],
   Doc(F("other", "S")),
   Doc(F("mcpServers", <<>>)),
   Doc(F("mcpServers", <<Item("x", F("command", "wx"))>>)),
   Doc(F("other", "S") @@ F("mcpServers", <<Item("y", F("command", "wx"))>>))}

\* canonical maps a caller passes to write_mcp_servers without reading them
InputMaps ==
  {<<>>,
   <<Item("x", F("command", "in"))>>,
   <<Item("y", F("command", "in") @@ F("args", <<"-v">>) @@ F("env", "E"))>>,
   <<Item("x", F("type", "http") @@ F("url", "I"))>>,
   <<Item("y", EmptyDict)>>,
   <<Item("x", F("command", "in") @@ F("enabled", FALSE))>>,
   <<Item("y", F("type", "sse") @@ F("url", "I") @@ F("headers", "H")),
     Item("x", F("command", "in") @@ F("args", <<>>))>>}

\* ------------------------------------------------------------------ state

VARIABLES
  files,    \* platform -> the state of its global config file
  plugins,  \* the plugin .mcp.json files under the plugins root, in discovery order
  dirs,     \* platform -> the state of the directory its global file lives in
  held,     \* the canonical map the caller holds: read from a platform or its own
  last,     \* the call that ended last: its arguments, its result, the state before
  procs,    \* the invocations running at the same time against one global file
  skills    \* the skill directories: the scan's record, the forks, a backup

vars == <<files, plugins, dirs, held, last, procs, skills>>

NoFiles == [p \in Platform |-> Absent]

\* every platform configured with one server and a sibling key
SampleFiles == [p \in Platform |-> Doc(SampleDoc(p))]

\* a directory is there, is missing and can be made, or cannot be made (no
\* permission on its parent, or a regular file stands in its place)
DirStates == {"present", "missing", "blocked"}

\* the directory of an existing file is there, and so is Claude's: the home
DirsFor(fs, u) ==
  [p \in Platform |-> IF Exists(fs[p]) \/ p = CLAUDE_CODE THEN "present" ELSE u]

\* what a later call can tell of the call that ended
Ended(l) ==
  [op |-> l.op, platform |-> l.platform, dry_run |-> l.dry_run, ret |-> l.ret,
   raised |-> l.raised, pre |-> l.pre, prePlugins |-> l.prePlugins]

NoCall(fs, pl, ds) ==
  [op |-> "none", platform |-> "none", dry_run |-> FALSE, ret |-> 0, raised |-> FALSE,
   n |-> 0, pre |-> fs, prePlugins |-> pl, preDirs |-> ds,
   prev |-> [op |-> "none", platform |-> "none", dry_run |-> FALSE, ret |-> 0,
             raised |-> FALSE, pre |-> fs, prePlugins |-> pl]]

\* one invocation at a time: nothing runs beside it
NoProcs == [platform |-> "none", st |-> <<>>, order |-> <<>>]

\* no skill was scanned or backed up, and no fork has a skill directory
NoSkills ==
  [info |-> [kind |-> "absent", skills |-> <<>>],
   forks |-> [q \in {CODEX, CURSOR} |-> [dir |-> "missing", has |-> {}]],
   backup |-> <<>>,
   target |-> [dir |-> "missing", has |-> {}, stuck |-> {}]]

\* The config files are the user's: a run starts from any of them.  Either
\* Claude has plugin files beside a global file, or one platform's global file
\* is arbitrary and the others are all missing or all configured.
Init ==
  /\ \/ /\ files \in {[NoFiles EXCEPT ![CLAUDE_CODE] = g] : g \in ClaudeGlobalPool}
        /\ plugins \in PluginSeqs
        /\ dirs = DirsFor(files, "missing")
     \/ /\ \E p \in Platform, others \in {NoFiles, SampleFiles} :
             files \in {[others EXCEPT ![p] = f] : f \in FilePool(p)}
        /\ plugins = <<>>
        /\ dirs \in {DirsFor(files, u) : u \in DirStates}
  /\ held = [has |-> FALSE, servers |-> <<>>, from |-> "none"]
  /\ last = NoCall(files, plugins, dirs)
  /\ procs = NoProcs
  /\ skills = NoSkills

\* One run of the tool is one entry point: a read or a caller-built map,
\* followed by a write of the map held (a translation when it was read, which
\* may be done a second time when it was a self-translation); a count; or a
\* clean, called once or twice in a row on a platform.
Called(op, p, dry_run, ret, raised) ==
  [op |-> op, platform |-> p, dry_run |-> dry_run, ret |-> ret, raised |-> raised,
   n |-> last.n + 1, pre |-> files, prePlugins |-> plugins, preDirs |-> dirs,
   prev |-> Ended(last)]

\* servers, sources = read_mcp_servers(p): the first call of a run, or the
\* start of a second pass of a self-translation of p
Read(p) ==
  /\ \/ last.op = "none"
     \/ /\ last.op = "write" /\ last.n = 2 /\ ~last.dry_run /\ last.ret = TRUE
        /\ last.platform = p /\ held.from = p
  /\ LET r == read_mcp_servers(p, files, plugins) IN
     /\ held' = [has |-> TRUE, servers |-> r.servers, from |-> p]
     /\ last' = Called("read", p, FALSE, r, read_raises(p, files, plugins))
  /\ UNCHANGED <<files, plugins, dirs, procs, skills>>

\* the caller builds a canonical map of its own
Supply(m) ==
  /\ last.op = "none"
  /\ held' = [has |-> TRUE, servers |-> m, from |-> "caller"]
  /\ last' = Called("supply", "none", FALSE, 0, FALSE)
  /\ UNCHANGED <<files, plugins, dirs, procs, skills>>

\* write_mcp_servers(p, held map, dry_run)
Write(p, dry_run) ==
  /\ last.op \in {"read", "supply"}
  /\ last.n = 3 => p = held.from
  /\ LET w == write_mcp_servers(p, held.servers, dry_run, files, dirs) IN
     /\ files' = w.files
     /\ dirs' = w.dirs
     /\ last' = Called("write", p, dry_run, w.ret, w.raised)
  /\ UNCHANGED <<plugins, held, procs, skills>>

\* _count_mcp_servers(p)
Count(p) ==
  /\ last.op = "none"
  /\ last' = Called("count", p, FALSE, _count_mcp_servers(p, files, plugins),
                    _count_raises(p, files, plugins))
  /\ UNCHANGED <<files, plugins, dirs, held, procs, skills>>

\* clean_mcp_servers(p, dry_run), once or twice in a row
Clean(p, dry_run) ==
  /\ \/ last.op = "none"
     \/ last.op = "clean" /\ last.n = 1 /\ last.platform = p
  /\ LET c == clean_mcp_servers(p, dry_run, files, plugins) IN
     /\ files' = c.files
     /\ plugins' = c.plugins
     /\ last' = Called("clean", p, dry_run, c.ret, c.raised)
  /\ UNCHANGED <<dirs, held, procs, skills>>

Next ==
  \/ \E p \in Platform : Read(p)
  \/ \E m \in InputMaps : Supply(m)
  \/ \E p \in Platform, dry_run \in BOOLEAN : Write(p, dry_run)
  \/ \E p \in Platform : Count(p)
  \/ \E p \in Platform, dry_run \in BOOLEAN : Clean(p, dry_run)

Spec == Init /\ [][Next]_vars

\* ------------------------------------- two invocations at the same time

\* Two invocations of the tool run against the global JSON file of one
\* platform.  Each is a write_mcp_servers or a clean_mcp_servers (not dry), and
\* its system calls interleave with the other's: the load of the file, the
\* open(path, 'w') that truncates it, and the dump that ends with the close.

\* the platforms whose global file is JSON
JsonPlatforms == {CLAUDE_CODE, OPENCODE, CURSOR, WINDSURF}

Procs == {"A", "B"}

\* the maps the two writes are given
ConcurrentMaps ==
  {<<Item("x", F("command", "in"))>>, <<Item("y", F("type", "http") @@ F("url", "I"))>>}

\* what an invocation does
Jobs ==
  {[op |-> "write", servers |-> m] : m \in ConcurrentMaps}
  \cup {[op |-> "clean", servers |-> <<>>]}

\* the value the writer of p stores under the owned key for the map servers
NativeMap(p, servers) ==
  CASE p = CODEX -> CodexServers(servers)
    [] p = OPENCODE -> OpenCodeServers(servers)
    [] OTHER -> servers

\* the file right after open(path, 'w') and until the dump is flushed: no
\* text, which json.load rejects
Truncated == Malformed

\* no text was flushed by the other invocation
NoText == [seen |-> FALSE, data |-> EmptyDict]

\* an invocation: its job, where it stands, the document it holds, and the
\* text flushed under it by the other invocation since it opened the file
Started(job) ==
  [op |-> job.op, servers |-> job.servers, pc |-> "start", data |-> EmptyDict,
   under |-> NoText]

InitConcurrent ==
  /\ \E p \in JsonPlatforms :
       /\ files \in {[NoFiles EXCEPT ![p] = f] :
                       f \in {Absent, Doc(F("other", "S")), Doc(SampleDoc(p))}}
       /\ procs \in {[platform |-> p, st |-> st, order |-> <<>>] :
                       st \in [Procs -> {Started(job) : job \in Jobs}]}
  /\ plugins = <<>>
  /\ dirs = DirsFor(files, "missing")
  /\ held = [has |-> FALSE, servers |-> <<>>, from |-> "none"]
  /\ last = NoCall(files, plugins, dirs)
  /\ skills = NoSkills

\* invocation i moves on
Step(i, pc, data) ==
  [procs EXCEPT !.st[i].pc = pc, !.st[i].data = data]

\* write_mcp_servers up to the dump: mkdir, then the writer loads the document
\* (an empty one when the file is missing or does not parse) and sets its key
W_Load(i) ==
  LET p == procs.platform
      l == LoadForWrite(files[p])
  IN  /\ procs.st[i].op = "write" /\ procs.st[i].pc = "start"
      /\ Mkdir(dirs[p]).status = "ok" /\ l.status = "ok"
      /\ dirs' = [dirs EXCEPT ![p] = Mkdir(dirs[p]).dir]
      /\ procs' = Step(i, "loaded",
                       Put(l.data, OwnedKey(p), NativeMap(p, procs.st[i].servers)))
      /\ UNCHANGED <<files, plugins, held, last, skills>>

\* clean_mcp_servers: the count, and the return when it is 0
C_Count(i) ==
  /\ procs.st[i].op = "clean" /\ procs.st[i].pc = "start"
  /\ procs' = Step(i, IF _count_mcp_servers(procs.platform, files, plugins) = 0
                        THEN "done" ELSE "counted", EmptyDict)
  /\ UNCHANGED <<files, plugins, dirs, held, last, skills>>

\* clean_mcp_servers: the load of the file and the deletion of the key from the
\* document loaded; a load that raises, or a document without the key, ends
\* the call
C_Load(i) ==
  LET p == procs.platform
      l == Load(files[p])
  IN  /\ procs.st[i].op = "clean" /\ procs.st[i].pc = "counted"
      /\ procs' = IF Exists(files[p]) /\ l.status = "ok" /\ Has(l.data, OwnedKey(p))
                    THEN Step(i, "loaded", Del(l.data, OwnedKey(p)))
                    ELSE Step(i, "done", EmptyDict)
      /\ UNCHANGED <<files, plugins, dirs, held, last, skills>>

\* with open(path, 'w') as f: the file is truncated
Open(i) ==
  /\ procs.st[i].pc = "loaded"
  /\ files' = [files EXCEPT ![procs.platform] = Truncated]
  /\ procs' = [procs EXCEPT !.st[i].pc = "opened", !.st[i].under = NoText]
  /\ UNCHANGED <<plugins, dirs, held, last, skills>>

\* every key of document a is in document b with the same value: the text of
\* b is at least as long as the text of a
SubDoc(a, b) ==
  /\ DOMAIN a \subseteq DOMAIN b
  /\ \A k \in DOMAIN a : a[k] = b[k]

\* The file after invocation i flushes its text at offset 0.  When the other
\* invocation flushed since i opened the file, a longer text of the other's
\* keeps its tail after the text of i, and the file no longer parses; which
\* text is longer is known when one document contains the other and depends
\* on the lengths of the names and values otherwise.
Flushed(i) ==
  LET mine == procs.st[i].data
      under == procs.st[i].under
  IN  IF ~under.seen \/ SubDoc(under.data, mine) THEN {Doc(mine)}
      ELSE IF SubDoc(mine, under.data) THEN {Malformed}
      ELSE {Doc(mine), Malformed}

\* json.dump and the close: the text reaches the file
Flush(i) ==
  /\ procs.st[i].pc = "opened"
  /\ \E f \in Flushed(i) : files' = [files EXCEPT ![procs.platform] = f]
  /\ procs' = [procs EXCEPT
       !.st = [j \in Procs |->
                 IF j = i THEN [procs.st[j] EXCEPT !.pc = "done"]
                 ELSE IF procs.st[j].pc = "opened"
                   THEN [procs.st[j] EXCEPT
                           !.under = [seen |-> TRUE, data |-> procs.st[i].data]]
                   ELSE procs.st[j]],
       !.order = Append(procs.order, i)]
  /\ UNCHANGED <<plugins, dirs, held, last, skills>>

NextConcurrent ==
  \/ \E i \in Procs : W_Load(i)
  \/ \E i \in Procs : C_Count(i)
  \/ \E i \in Procs : C_Load(i)
  \/ \E i \in Procs : Open(i)
  \/ \E i \in Procs : Flush(i)

SpecConcurrent == InitConcurrent /\ [][NextConcurrent]_vars

\* ------------------------------------------------------- skill directories

\* core.py copies skill directories: sync_skills from the master platform to
\* the forks, restore_skills from a backup to the platform it was taken of.
\* A skill is known by its name, which is also its path relative to the skills
\* directory it lies in.

SkillNames == {"s1", "s2"}

\* the platforms a sync copies to, and the lists of them a caller passes
ForkPlatforms == {CODEX, CURSOR}
ForkLists == {<<>>, <<CURSOR>>, <<CODEX, CURSOR>>}

\* One entry of the scan's record for the master platform: whether it has a
\* "path", whether that path lies under a skills directory of the master, and
\* whether the directory is still on disk (skills can be deleted after a scan).
InfoEntry(n, has_path, under, on_disk) ==
  [name |-> n, has_path |-> has_path, under |-> under, on_disk |-> on_disk]

InfoEntries(n) ==
  {InfoEntry(n, TRUE, TRUE, TRUE), InfoEntry(n, TRUE, TRUE, FALSE),
   InfoEntry(n, TRUE, FALSE, TRUE), InfoEntry(n, FALSE, FALSE, FALSE)}

InfoLists ==
  {<<>>} \cup {<<e>> : e \in InfoEntries("s1") \cup InfoEntries("s2")}
         \cup {<<e1, e2>> : e1 \in InfoEntries("s1"), e2 \in InfoEntries("s2")}

\* skills_info.json: missing, not JSON, or the master platform's list
InfoFiles ==
  {[kind |-> "absent", skills |-> <<>>], [kind |-> "malformed", skills |-> <<>>]}
    \cup {[kind |-> "ok", skills |-> l] : l \in InfoLists}

\* the skills directory of a fork and the skills in it
ForkDirs ==
  {[dir |-> "missing", has |-> {}], [dir |-> "blocked", has |-> {}]}
    \cup {[dir |-> "present", has |-> h] : h \in SUBSET SkillNames}

\* One entry of a backup's skills_info.json: whether it has a "relative_path"
\* and whether the skill's directory is in the backup.
BackupEntry(n, rel, saved) == [name |-> n, rel |-> rel, saved |-> saved]

BackupEntries(n) ==
  {BackupEntry(n, TRUE, TRUE), BackupEntry(n, TRUE, FALSE), BackupEntry(n, FALSE, FALSE)}

BackupLists ==
  {<<>>} \cup {<<e>> : e \in BackupEntries("s1") \cup BackupEntries("s2")}
         \cup {<<e1, e2>> : e1 \in BackupEntries("s1"), e2 \in BackupEntries("s2")}

\* The skills directory a backup is restored to: the skills in it, and the
\* names under which something stands that cannot be replaced (a regular
\* file, a directory without write permission).
Targets ==
  {[dir |-> "missing", has |-> {}, stuck |-> {}],
   [dir |-> "blocked", has |-> {}, stuck |-> {}]}
    \cup {[dir |-> "present", has |-> h, stuck |-> k] :
            h \in SUBSET SkillNames, k \in SUBSET SkillNames}

\* config.load_skills_info, then .get(master_platform_key, [])
load_skills_info(info) == IF info.kind = "ok" THEN info.skills ELSE <<>>

\* sync_skills, one master skill into one fork directory.  acc is the fork
\* directory, the count so far and whether the copy raised.
SyncOne(acc, master_skill, dry_run) ==
  IF ~master_skill.under THEN acc
  ELSE IF dry_run THEN [acc EXCEPT !.count = @ + 1]
  ELSE IF ~master_skill.on_disk THEN [acc EXCEPT !.raised = TRUE]
  ELSE [acc EXCEPT !.fork.has = @ \cup {master_skill.name}, !.count = @ + 1]

RECURSIVE CopySkills(_, _, _, _)
CopySkills(acc, master_skills, dry_run, i) ==
  IF i > Len(master_skills) \/ acc.raised THEN acc
  ELSE CopySkills(SyncOne(acc, master_skills[i], dry_run), master_skills, dry_run, i + 1)

\* sync_skills, one fork platform: the directory is made, dry run or not
SyncFork(fork, master_skills, dry_run) ==
  LET made == Mkdir(fork.dir)
  IN  IF made.status # "ok" THEN [raised |-> TRUE, fork |-> fork, count |-> 0]
      ELSE CopySkills([raised |-> FALSE, fork |-> [fork EXCEPT !.dir = made.dir],
                       count |-> 0], master_skills, dry_run, 1)

RECURSIVE SyncForks(_, _, _, _, _)
SyncForks(acc, fork_platforms, master_skills, dry_run, i) ==
  IF i > Len(fork_platforms) \/ acc.raised THEN acc
  ELSE LET q == fork_platforms[i]
           r == SyncFork(acc.forks[q], master_skills, dry_run)
       IN  SyncForks([raised |-> r.raised,
                      forks |-> [acc.forks EXCEPT ![q] = r.fork],
                      synced_to |-> IF r.raised THEN acc.synced_to
                                    ELSE Put(acc.synced_to, q, r.count)],
                     fork_platforms, master_skills, dry_run, i + 1)

sync_skills(fork_platforms, dry_run, sk) ==
  LET master_skills_info == load_skills_info(sk.info)
      master_skills == SelectSeq(master_skills_info, LAMBDA e : e.has_path)
  IN  IF sk.info.kind = "absent" \/ Len(master_skills_info) = 0 \/ Len(master_skills) = 0
        THEN [ret |-> [master_skills |-> 0, synced_to |-> EmptyDict, error |-> TRUE],
              raised |-> FALSE, skills |-> sk]
      ELSE LET r == SyncForks([raised |-> FALSE, forks |-> sk.forks, synced_to |-> EmptyDict],
                              fork_platforms, master_skills, dry_run, 1)
           IN  [ret |-> [master_skills |-> Len(master_skills),
                         synced_to |-> r.synced_to, error |-> FALSE],
                raised |-> r.raised,
                skills |-> [sk EXCEPT !.forks = r.forks]]

\* a restore that counts the skill before it copies it
RestoreOneCountingFirst(acc, skill_info, dry_run) ==
  IF ~skill_info.rel \/ ~skill_info.saved
    THEN [acc EXCEPT !.errors = Append(@, skill_info.name)]
  ELSE IF dry_run THEN [acc EXCEPT !.restored = @ + 1]
  ELSE IF Mkdir(acc.target.dir).status # "ok" THEN [acc EXCEPT !.raised = TRUE]
  ELSE IF skill_info.name \in acc.target.stuck
    THEN [acc EXCEPT !.target.dir = "present", !.restored = @ + 1,
                     !.errors = Append(@, skill_info.name)]
  ELSE [acc EXCEPT !.target.dir = "present",
                   !.target.has = @ \cup {skill_info.name}, !.restored = @ + 1]

\* restore_skills, one listed skill.  acc is the target directory, the count
\* and the errors so far, and whether making the target directory raised.
RestoreOne(acc, skill_info, dry_run) ==
  IF ~skill_info.rel THEN [acc EXCEPT !.errors = Append(@, skill_info.name)]
  ELSE IF ~skill_info.saved THEN [acc EXCEPT !.errors = Append(@, skill_info.name)]
  ELSE IF dry_run THEN [acc EXCEPT !.restored = @ + 1]
  ELSE IF Mkdir(acc.target.dir).status # "ok" THEN [acc EXCEPT !.raised = TRUE]
  ELSE IF skill_info.name \in acc.target.stuck
    THEN [acc EXCEPT !.target.dir = "present", !.errors = Append(@, skill_info.name)]
  ELSE [acc EXCEPT !.target.dir = "present",
                   !.target.has = @ \cup {skill_info.name}, !.restored = @ + 1]

RECURSIVE RestoreEach(_, _, _, _)
RestoreEach(acc, skills_info, dry_run, i) ==
  IF i > Len(skills_info) \/ acc.raised THEN acc
  ELSE RestoreEach(RestoreOne(acc, skills_info[i], dry_run), skills_info, dry_run, i + 1)

\* the backup's skills_info.json is valid and names a known platform
restore_skills(dry_run, sk) ==
  LET skills_info == sk.backup
      r == RestoreEach([raised |-> FALSE, target |-> sk.target, restored |-> 0,
                        errors |-> <<>>], skills_info, dry_run, 1)
  IN  [ret |-> [restored |-> r.restored, total |-> Len(skills_info),
                errors |-> r.errors],
       raised |-> r.raised,
       skills |-> [sk EXCEPT !.target = r.target]]

NoSkillCall(sk) ==
  [op |-> "none", dry_run |-> FALSE, fork_platforms |-> <<>>, ret |-> 0,
   raised |-> FALSE, preSkills |-> sk]

\* A run starts from the user's directories: either a scan's record with the
\* forks in any state, or a backup with the directory it is restored to.
InitSkills ==
  /\ \/ skills \in {[NoSkills EXCEPT !.info = i, !.forks = f] :
                      i \in InfoFiles, f \in [ForkPlatforms -> ForkDirs]}
     \/ skills \in {[NoSkills EXCEPT !.backup = b, !.target = t] :
                      b \in BackupLists, t \in Targets}
  /\ files = NoFiles
  /\ plugins = <<>>
  /\ dirs = DirsFor(files, "missing")
  /\ held = [has |-> FALSE, servers |-> <<>>, from |-> "none"]
  /\ procs = NoProcs
  /\ last = NoSkillCall(skills)

Sync(fork_platforms, dry_run) ==
  /\ last.op = "none"
  /\ LET r == sync_skills(fork_platforms, dry_run, skills)
     IN  /\ skills' = r.skills
         /\ last' = [op |-> "sync_skills", dry_run |-> dry_run,
                     fork_platforms |-> fork_platforms, ret |-> r.ret,
                     raised |-> r.raised, preSkills |-> skills]
  /\ UNCHANGED <<files, plugins, dirs, held, procs>>

Restore(dry_run) ==
  /\ last.op = "none"
  /\ LET r == restore_skills(dry_run, skills)
     IN  /\ skills' = r.skills
         /\ last' = [op |-> "restore_skills", dry_run |-> dry_run,
                     fork_platforms |-> <<>>, ret |-> r.ret,
                     raised |-> r.raised, preSkills |-> skills]
  /\ UNCHANGED <<files, plugins, dirs, held, procs>>

NextSkills ==
  \/ \E fork_platforms \in ForkLists, dry_run \in BOOLEAN : Sync(fork_platforms, dry_run)
  \/ \E dry_run \in BOOLEAN : Restore(dry_run)

SpecSkills == InitSkills /\ [][NextSkills]_vars

\* ------------------------------------------------------------- properties

\* the file opens and parses
Parseable(f) == f.kind = "ok" /\ f.readable

\* the server map under key k of a parseable file (empty when the key is missing)
Owned(f, k) == IF Parseable(f) THEN Get(f.data, k, <<>>) ELSE <<>>

\* the names some parseable plugin file defines
PluginNames(pl) ==
  UNION {Names(pl[i].data) : i \in {j \in 1..Len(pl) : Parseable(pl[j])}}

\* names defined both in the global ~/.claude.json and in a plugin file
SharedNames(fs, pl) == Names(Owned(fs[CLAUDE_CODE], "mcpServers")) \cap PluginNames(pl)

\* C1: read_mcp_servers(CLAUDE_CODE) returns the global file's entry for every
\* name that ~/.claude.json and some plugin .mcp.json both define, whatever the
\* position of the plugin file in the discovery order.
C1_GlobalWins ==
  (last.op = "read" /\ last.platform = CLAUDE_CODE) =>
    \A n \in SharedNames(files, plugins) :
      /\ n \in Names(last.ret.servers)
      /\ ConfigOf(last.ret.servers, n) = ConfigOf(Owned(files[CLAUDE_CODE], "mcpServers"), n)

\* a read of Claude where a plugin file defines, with another command, a name
\* of the global file
C1_Witness ==
  /\ last.op = "read" /\ last.platform = CLAUDE_CODE
  /\ \E n \in SharedNames(files, plugins) : \E i \in 1..Len(plugins) :
       /\ Parseable(plugins[i]) /\ n \in Names(plugins[i].data)
       /\ ConfigOf(plugins[i].data, n) # ConfigOf(last.ret.servers, n)

\* C2: a write or a clean of platform p leaves every top-level key of p's
\* parseable global file other than the owned one with the value it had.
C2_SiblingKeysKept ==
  (last.op \in {"write", "clean"} /\ last.pre[last.platform].kind = "ok") =>
    LET before == last.pre[last.platform].data
        after == files[last.platform]
    IN  /\ after.kind = "ok"
        /\ \A k \in (DOMAIN before) \ {OwnedKey(last.platform)} :
             k \in DOMAIN after.data /\ after.data[k] = before[k]

\* a real write that replaced the owned key of a file holding a sibling key
C2_Witness ==
  /\ last.op = "write" /\ ~last.dry_run /\ last.ret = TRUE
  /\ Parseable(last.pre[last.platform])
  /\ "other" \in DOMAIN last.pre[last.platform].data
  /\ files[last.platform] # last.pre[last.platform]

\* a canonical stdio entry with a non-empty command
StdioConfig(c) ==
  /\ Has(c, "command") /\ c["command"] # ""
  /\ ~Has(c, "url") /\ Get(c, "type", "stdio") = "stdio"

StdioMap(m) == \A i \in 1..Len(m) : StdioConfig(m[i].config)

\* the same command, args and env (no args reads as no arguments)
SameStdio(c1, c2) ==
  /\ Get(c1, "command", "") = Get(c2, "command", "")
  /\ Get(c1, "args", <<>>) = Get(c2, "args", <<>>)
  /\ Has(c1, "env") = Has(c2, "env")
  /\ Has(c1, "env") => c1["env"] = c2["env"]

\* a real write_mcp_servers that returned True just ended
Wrote == last.op = "write" /\ ~last.dry_run /\ last.ret = TRUE

\* what read_mcp_servers(p) returns in the current state
ReadBack(p) == read_mcp_servers(p, files, plugins).servers

\* C3 as stated: after write_mcp_servers(P, map) of a map of stdio entries with
\* non-empty commands, read_mcp_servers(P) returns the same names, each with the
\* same command, args and env, on every platform.
C3_RoundTripEveryPlatform ==
  (Wrote /\ StdioMap(held.servers)) =>
    /\ Names(ReadBack(last.platform)) = Names(held.servers)
    /\ \A n \in Names(held.servers) :
         SameStdio(ConfigOf(ReadBack(last.platform), n), ConfigOf(held.servers, n))

\* C3 amended: after a write of such a map that returned True, read_mcp_servers(P)
\* returns every name of the map with the same command, args and env; the names
\* returned are the map's, and for Claude also the names that parseable plugin
\* .mcp.json files define.
C3_RoundTrip ==
  (Wrote /\ StdioMap(held.servers)) =>
    /\ Names(ReadBack(last.platform)) =
         Names(held.servers)
           \cup (IF last.platform = CLAUDE_CODE THEN PluginNames(plugins) ELSE {})
    /\ \A n \in Names(held.servers) :
         SameStdio(ConfigOf(ReadBack(last.platform), n), ConfigOf(held.servers, n))

\* a stdio server with arguments and an environment went through the OpenCode
\* codec, and a write to Claude met a plugin file defining another name
C3_Witness ==
  /\ Wrote /\ StdioMap(held.servers)
  /\ \/ /\ last.platform = OPENCODE
        /\ \E n \in Names(held.servers) :
             /\ Get(ConfigOf(held.servers, n), "args", <<>>) # <<>>
             /\ Has(ConfigOf(held.servers, n), "env")
     \/ /\ last.platform = CLAUDE_CODE
        /\ held.servers # <<>>
        /\ PluginNames(plugins) \ Names(held.servers) # {}

\* the self-translation read_mcp_servers(P) then write_mcp_servers(P, that map)
SelfTranslated == Wrote /\ held.from = last.platform

\* C4: after read_mcp_servers(P) then write_mcp_servers(P, the map read), the
\* owned key of P's parseable global file holds the names and the entries it
\* held before, key order aside.
C4_SelfTranslationKeepsOwnedKey ==
  (SelfTranslated /\ Parseable(last.pre[last.platform])) =>
    AsDict(Owned(files[last.platform], OwnedKey(last.platform)))
      = AsDict(Owned(last.pre[last.platform], OwnedKey(last.platform)))

\* the entry c maps to some Codex field
UsableForCodex(c) ==
  IF Get(c, "type", "stdio") \in {"sse", "http"}
    THEN Has(c, "url") \/ Has(c, "headers")
    ELSE Has(c, "command") \/ Has(c, "args") \/ Has(c, "env")

\* the server map under the owned key of the file just written
Written == Owned(files[last.platform], OwnedKey(last.platform))

NativeRemote(c) == Has(c, "url")

NativeStdio(p, c) ==
  /\ ~Has(c, "url")
  /\ IF p = OPENCODE
       THEN Get(c, "type", "local") = "local" /\ Get(c, "command", <<>>) # <<>>
       ELSE Has(c, "command")

\* the command followed by its arguments
NativeCommandLine(p, c) ==
  IF p = OPENCODE THEN c["command"] ELSE <<c["command"]>> \o Get(c, "args", <<>>)

\* C6: write_mcp_servers(D, read_mcp_servers(S)) writes every entry that has a
\* url in S's file as a remote entry of D with that url, and every stdio entry
\* of S as a stdio/local entry of D with the same command and args.
C6_TransportKindKept ==
  (Wrote /\ held.from \in Platform /\ Parseable(last.pre[held.from])) =>
    LET S == held.from
        D == last.platform
        src == Owned(last.pre[S], OwnedKey(S))
    IN  \A n \in Names(src) :
          LET c == ConfigOf(src, n) IN
          /\ NativeRemote(c) =>
               /\ n \in Names(Written)
               /\ NativeRemote(ConfigOf(Written, n))
               /\ ~NativeStdio(D, ConfigOf(Written, n))
               /\ ConfigOf(Written, n)["url"] = c["url"]
          /\ NativeStdio(S, c) =>
               /\ n \in Names(Written)
               /\ NativeStdio(D, ConfigOf(Written, n))
               /\ NativeCommandLine(D, ConfigOf(Written, n)) = NativeCommandLine(S, c)

\* the mcp_servers table of a parseable config.toml
CodexTable == Owned(files[CODEX], "mcp_servers")

\* r is the remote entry of the Codex table c: type http, c's url and headers
RemoteOf(r, c) ==
  /\ DOMAIN r = {"type", "url"} \cup (IF Has(c, "http_headers") THEN {"headers"} ELSE {})
  /\ r["type"] = "http" /\ r["url"] = c["url"]
  /\ Has(c, "http_headers") => r["headers"] = c["http_headers"]

\* r is the stdio entry of the Codex table c: c's command, args and env only
StdioOf(r, c) ==
  /\ DOMAIN r = (DOMAIN c) \cap {"command", "args", "env"}
  /\ \A k \in DOMAIN r : r[k] = c[k]

\* C7 as stated: read_mcp_servers(CODEX) returns a remote entry for every
\* mcp_servers entry with a url and a stdio entry for every one without.
C7_EveryCodexEntryDecoded ==
  (last.op = "read" /\ last.platform = CODEX) =>
    \A n \in Names(CodexTable) :
      /\ n \in Names(last.ret.servers)
      /\ IF Has(ConfigOf(CodexTable, n), "url")
           THEN RemoteOf(ConfigOf(last.ret.servers, n), ConfigOf(CodexTable, n))
           ELSE StdioOf(ConfigOf(last.ret.servers, n), ConfigOf(CodexTable, n))

\* C7 amended: read_mcp_servers(CODEX) returns a remote entry (type http, url,
\* headers when http_headers is there, no command, args or env) for every
\* mcp_servers entry with a url, command present or not; a stdio entry for every
\* entry without url that has a command, args or env; and no entry for one that
\* has none of these fields.
C7_CodexTransport ==
  (last.op = "read" /\ last.platform = CODEX) =>
    \A n \in Names(CodexTable) :
      LET c == ConfigOf(CodexTable, n) IN
      IF Has(c, "url")
        THEN n \in Names(last.ret.servers) /\ RemoteOf(ConfigOf(last.ret.servers, n), c)
        ELSE IF (DOMAIN c) \cap {"command", "args", "env"} # {}
          THEN n \in Names(last.ret.servers) /\ StdioOf(ConfigOf(last.ret.servers, n), c)
          ELSE n \notin Names(last.ret.servers)

\* a read of a config.toml with an entry holding both url and command
C7_Witness ==
  /\ last.op = "read" /\ last.platform = CODEX
  /\ \E n \in Names(CodexTable) :
       /\ {"url", "command"} \subseteq DOMAIN ConfigOf(CodexTable, n)
       /\ n \in Names(last.ret.servers)

\* C8: every entry read_mcp_servers returns has a command or a url, never both
\* and never neither.
C8_ExactlyOneShape ==
  last.op = "read" =>
    \A i \in 1..Len(last.ret.servers) :
      Has(last.ret.servers[i].config, "command") # Has(last.ret.servers[i].config, "url")

\* C9: _count_mcp_servers(CLAUDE_CODE) is the number of entries of the map
\* read_mcp_servers(CLAUDE_CODE) returns.
C9_ClaudeCountIsReadSize ==
  (last.op = "count" /\ last.platform = CLAUDE_CODE) =>
    last.ret = Len(ReadBack(CLAUDE_CODE))

\* C10: after clean_mcp_servers(P, dry_run=False) the global file of P has no
\* owned key and, for Claude, no plugin .mcp.json file is left.
C10_CleanRemovesEverything ==
  (last.op = "clean" /\ ~last.dry_run) =>
    /\ Parseable(files[last.platform]) =>
         ~Has(files[last.platform].data, OwnedKey(last.platform))
    /\ last.platform = CLAUDE_CODE => plugins = <<>>

\* C11: clean_mcp_servers(P, dry_run) returns, for dry_run true and false alike,
\* the value _count_mcp_servers(P) has in the state before anything is deleted.
C11_CleanReturnsCountBefore ==
  last.op = "clean" =>
    /\ ~last.raised
    /\ last.ret = _count_mcp_servers(last.platform, last.pre, last.prePlugins)

\* a clean that deleted servers: counting now gives another value than it returned
C11_Witness ==
  /\ last.op = "clean" /\ ~last.dry_run /\ last.ret > 0
  /\ files # last.pre
  /\ _count_mcp_servers(last.platform, files, plugins) # last.ret

\* the names configured for p: under the owned key of its global file and, for
\* Claude, in the plugin files
Configured(p, fs, pl) ==
  Names(Owned(fs[p], OwnedKey(p)))
  \cup (IF p = CLAUDE_CODE THEN PluginNames(pl) ELSE {})

\* C12: the integer clean_mcp_servers(P, dry_run=False) returns is the number of
\* servers removed: the entries configured for P before the call and not after.
C12_ReturnIsNumberRemoved ==
  (last.op = "clean" /\ ~last.dry_run) =>
    last.ret = Cardinality(Configured(last.platform, last.pre, last.prePlugins)
                             \ Configured(last.platform, files, plugins))

\* C13: when no server is configured for P, two calls of clean_mcp_servers(P) in
\* a row both return 0, neither raises, and no file is modified or deleted.
C13_CleanTwiceOnEmpty ==
  (/\ last.op = "clean" /\ last.n = 2
   /\ Configured(last.platform, last.prev.pre, last.prev.prePlugins) = {}) =>
    /\ last.prev.ret = 0 /\ ~last.prev.raised
    /\ last.ret = 0 /\ ~last.raised
    /\ last.pre = last.prev.pre /\ last.prePlugins = last.prev.prePlugins
    /\ files = last.prev.pre /\ plugins = last.prev.prePlugins

\* two real cleans in a row of a Claude configuration whose global file exists
\* without a server and whose only plugin file does not parse
C13_Witness ==
  /\ last.op = "clean" /\ last.n = 2 /\ ~last.dry_run /\ ~last.prev.dry_run
  /\ last.platform = CLAUDE_CODE
  /\ Exists(last.prev.pre[CLAUDE_CODE])
  /\ Len(last.prev.prePlugins) > 0
  /\ Configured(CLAUDE_CODE, last.prev.pre, last.prev.prePlugins) = {}
  /\ last.ret = 0

\* a read of platform p whose global config file does not parse
ReadMalformed(p) ==
  last.op = "read" /\ last.platform = p /\ files[p].kind = "malformed"

\* C14 as stated: for every platform P, read_mcp_servers(P) on a config file
\* with malformed syntax returns an empty map and an empty provenance list and
\* raises nothing.
C14_MalformedReadsEmptyEverywhere ==
  \A p \in Platform :
    ReadMalformed(p) =>
      /\ ~last.raised
      /\ last.ret.servers = <<>> /\ last.ret.sources = <<>>

\* C14 amended: the read raises nothing; it returns an empty map and an empty
\* provenance list for Codex, OpenCode, Cursor and Windsurf, and for Claude the
\* names the parseable plugin files define, each with a plugin as its source.
C14_MalformedReadsNothingFromIt ==
  \A p \in Platform :
    ReadMalformed(p) =>
      /\ ~last.raised
      /\ p # CLAUDE_CODE => last.ret.servers = <<>> /\ last.ret.sources = <<>>
      /\ p = CLAUDE_CODE =>
           /\ Names(last.ret.servers) = PluginNames(plugins)
           /\ Len(last.ret.sources) = Len(last.ret.servers)
           /\ \A i \in 1..Len(last.ret.sources) :
                \E j \in 1..Len(plugins) :
                  /\ last.ret.sources[i].from = plugins[j].plugin
                  /\ Parseable(plugins[j])
                  /\ last.ret.sources[i].name \in Names(plugins[j].data)

\* a read of a malformed ~/.claude.json that returns a plugin's server
C14_Witness ==
  /\ ReadMalformed(CLAUDE_CODE)
  /\ Len(last.ret.servers) > 0

\* some step of a write of platform p's file meets an I/O error: the parent
\* directory cannot be made, the existing file cannot be opened for reading,
\* or it cannot be opened for writing
WriteMeetsIOError(p) ==
  \/ last.preDirs[p] = "blocked"
  \/ Exists(last.pre[p]) /\ ~last.pre[p].readable
  \/ Exists(last.pre[p]) /\ ~last.pre[p].writable

\* C15: write_mcp_servers(P, servers, dry_run=False) returns False and raises
\* nothing whenever an I/O error occurs at a step of the write: creating the
\* parent directory, reading the existing file, or writing the new content.
C15_WriteFailureIsAValue ==
  (last.op = "write" /\ ~last.dry_run /\ WriteMeetsIOError(last.platform)) =>
    last.ret = FALSE /\ ~last.raised

\* C16: write_mcp_servers(P, servers, dry_run=True) and
\* clean_mcp_servers(P, dry_run=True) create, modify and delete no file and no
\* directory and raise nothing, and the dry-run write returns True on every
\* platform, writable destination or not.
C16_DryRunMutatesNothing ==
  (last.op \in {"write", "clean"} /\ last.dry_run) =>
    /\ files = last.pre /\ plugins = last.prePlugins /\ dirs = last.preDirs
    /\ ~last.raised
    /\ last.op = "write" => last.ret = TRUE

\* a dry-run write of a non-empty map to a platform whose directory cannot be
\* made: a real write there raises
C16_Witness ==
  /\ last.op = "write" /\ last.dry_run /\ last.ret = TRUE
  /\ held.servers # <<>>
  /\ last.preDirs[last.platform] = "blocked"
  /\ ~Exists(files[last.platform])

\* the map read from Claude has been written to OpenCode
ClaudeToOpenCodeDone ==
  Wrote /\ last.platform = OPENCODE /\ held.from = CLAUDE_CODE

\* the Claude file of the example, for the server name n: one server with
\* command "wx" and args ["--json"], no plugin file and no OpenCode file
ExampleBefore(n) ==
  /\ Parseable(last.pre[CLAUDE_CODE])
  /\ DOMAIN last.pre[CLAUDE_CODE].data = {"mcpServers"}
  /\ last.pre[CLAUDE_CODE].data["mcpServers"]
       = <<Item(n, F("command", "wx") @@ F("args", <<"--json">>))>>
  /\ last.prePlugins = <<>>
  /\ ~Exists(last.pre[OPENCODE])

\* the OpenCode file of the example
ExampleAfter(n) ==
  /\ Parseable(files[OPENCODE])
  /\ DOMAIN files[OPENCODE].data = {"mcp"}
  /\ files[OPENCODE].data["mcp"]
       = <<Item(n, F("type", "local") @@ F("command", <<"wx", "--json">>)
                    @@ F("enabled", TRUE))>>

\* C17: a Claude entry with command c and args a (type missing or "stdio") is
\* written to OpenCode with type "local", command [c] followed by a, enabled
\* true, environment exactly when env is there, and nothing else; the one-server
\* Claude file of the example gives exactly the example's OpenCode file when
\* there was none.
C17_StdioToOpenCode ==
  ClaudeToOpenCodeDone =>
    /\ \A i \in 1..Len(held.servers) :
         LET c == held.servers[i].config
             n == held.servers[i].name
         IN  (Has(c, "command") /\ Get(c, "type", "stdio") = "stdio") =>
               /\ n \in Names(Written)
               /\ LET w == ConfigOf(Written, n) IN
                  /\ DOMAIN w = {"type", "command", "enabled"}
                                  \cup (IF Has(c, "env") THEN {"environment"} ELSE {})
                  /\ w["type"] = "local"
                  /\ w["command"] = <<c["command"]>> \o Get(c, "args", <<>>)
                  /\ w["enabled"] = TRUE
                  /\ Has(c, "env") => w["environment"] = c["env"]
    /\ \A n \in ServerNames : ExampleBefore(n) => ExampleAfter(n)

\* the example's translation has been done
C17_Witness ==
  /\ ClaudeToOpenCodeDone
  /\ \E n \in ServerNames : ExampleBefore(n) /\ ExampleAfter(n)

\* the plugin files that parse and define the name n, by discovery position
Defining(pl, n) ==
  {j \in 1..Len(pl) : Parseable(pl[j]) /\ n \in Names(pl[j].data)}

\* the first of them in discovery order
FirstDefining(pl, n) ==
  CHOOSE j \in Defining(pl, n) : \A k \in Defining(pl, n) : j <= k

\* C18: for a name the global ~/.claude.json does not define,
\* read_mcp_servers(CLAUDE_CODE) returns the entry of the first plugin file in
\* discovery order that defines it, with that plugin as its source; a plugin
\* discovered later never replaces it.
C18_FirstPluginWins ==
  (last.op = "read" /\ last.platform = CLAUDE_CODE) =>
    \A n \in PluginNames(plugins) \ Names(Owned(files[CLAUDE_CODE], "mcpServers")) :
      LET first == plugins[FirstDefining(plugins, n)] IN
      /\ n \in Names(last.ret.servers)
      /\ ConfigOf(last.ret.servers, n) = ConfigOf(first.data, n)
      /\ \A i \in 1..Len(last.ret.sources) :
           last.ret.sources[i].name = n => last.ret.sources[i].from = first.plugin

\* a read where two plugin files define, differently, a name the global file
\* does not have
C18_Witness ==
  /\ last.op = "read" /\ last.platform = CLAUDE_CODE
  /\ \E n \in PluginNames(plugins) \ Names(Owned(files[CLAUDE_CODE], "mcpServers")) :
       /\ Cardinality(Defining(plugins, n)) > 1
       /\ \E j \in Defining(plugins, n) :
            /\ j # FirstDefining(plugins, n)
            /\ DOMAIN ConfigOf(plugins[j].data, n) = {"command"}
            /\ DOMAIN ConfigOf(last.ret.servers, n) = {"command"}
            /\ ConfigOf(plugins[j].data, n)["command"]
                 # ConfigOf(last.ret.servers, n)["command"]

\* C19: every entry write_mcp_servers(OPENCODE, servers) writes has enabled
\* true, whatever the entry of servers holds, and there is one for each.
C19_OpenCodeAlwaysEnabled ==
  (Wrote /\ last.platform = OPENCODE) =>
    /\ Names(Written) = Names(held.servers)
    /\ \A i \in 1..Len(Written) :
         /\ Has(Written[i].config, "enabled")
         /\ Written[i].config["enabled"] = TRUE

\* a write to OpenCode of an entry that says enabled false
C19_Witness ==
  /\ Wrote /\ last.platform = OPENCODE
  /\ \E i \in 1..Len(held.servers) :
       /\ Has(held.servers[i].config, "enabled")
       /\ held.servers[i].config["enabled"] = FALSE
       /\ held.servers[i].name \in Names(Written)

\* a real clean of platform p whose global file parses and lacks p's owned key
CleanWithoutOwnedKey(p) ==
  /\ last.op = "clean" /\ ~last.dry_run /\ last.platform = p
  /\ Parseable(last.pre[p])
  /\ ~Has(last.pre[p].data, OwnedKey(p))

\* C20: clean_mcp_servers(P, dry_run=False) on a platform whose global file
\* exists and parses but has no owned key leaves every global file as it was
\* and raises nothing.
C20_CleanLeavesFileWithoutKey ==
  \A p \in Platform :
    CleanWithoutOwnedKey(p) => files = last.pre /\ ~last.raised

\* such a clean of Claude that went past the count and unlinked plugin files
C20_Witness ==
  /\ CleanWithoutOwnedKey(CLAUDE_CODE)
  /\ last.ret > 0
  /\ last.prePlugins # <<>> /\ plugins = <<>>
  /\ files[CLAUDE_CODE] = last.pre[CLAUDE_CODE]

\* C21: for Codex, OpenCode, Cursor and Windsurf, _count_mcp_servers(P) is the
\* number of names under the owned key of P's global file as the file holds
\* them, and 0 when the file or the key is missing or the file does not parse,
\* whether or not read_mcp_servers(P) returns each of them.
C21_RawCountElsewhere ==
  (last.op = "count" /\ last.platform # CLAUDE_CODE) =>
    /\ ~last.raised
    /\ LET f == files[last.platform] IN
       IF f.kind = "ok" /\ f.readable /\ Has(f.data, OwnedKey(last.platform))
         THEN last.ret = Cardinality(Names(f.data[OwnedKey(last.platform)]))
         ELSE last.ret = 0

\* a count of a config.toml with an entry that read_mcp_servers(CODEX) drops
C21_Witness ==
  /\ last.op = "count" /\ last.platform = CODEX
  /\ last.ret > Len(ReadBack(CODEX))

\* the entry c of the map given to the writer of p yields at least one field
\* of p's native format
MapsToNativeFields(p, c) ==
  CASE p = CODEX -> UsableForCodex(c)
    [] p = OPENCODE -> TRUE
    [] OTHER -> DOMAIN c # {}

OpenCodeTable(fs) == Owned(fs[OPENCODE], "mcp")

\* an mcp entry of type "local", or with no type
LocalEntry(e) == Get(e, "type", "local") = "local"

\* C24: for an mcp entry of type "local" or without type,
\* read_mcp_servers(OPENCODE) returns command = the first element of the native
\* command array and args = the rest in order, env = environment when it is
\* there, and command "" with args [] for an empty or missing array; writing
\* that result back with write_mcp_servers(OPENCODE) gives every non-empty
\* command array again.
C24_OpenCodeCommandSplit ==
  /\ (last.op = "read" /\ last.platform = OPENCODE) =>
       \A n \in Names(OpenCodeTable(files)) :
         LET e == ConfigOf(OpenCodeTable(files), n)
             command_list == Get(e, "command", <<>>)
         IN  LocalEntry(e) =>
               /\ n \in Names(last.ret.servers)
               /\ LET r == ConfigOf(last.ret.servers, n) IN
                  /\ DOMAIN r = {"command", "args"}
                                  \cup (IF Has(e, "environment") THEN {"env"} ELSE {})
                  /\ r["command"] = (IF Len(command_list) = 0 THEN "" ELSE Head(command_list))
                  /\ r["args"] = (IF Len(command_list) = 0 THEN <<>> ELSE Tail(command_list))
                  /\ Has(e, "environment") => r["env"] = e["environment"]
  /\ (SelfTranslated /\ last.platform = OPENCODE) =>
       \A n \in Names(OpenCodeTable(last.pre)) :
         LET e == ConfigOf(OpenCodeTable(last.pre), n)
             command_list == Get(e, "command", <<>>)
         IN  (LocalEntry(e) /\ Len(command_list) > 0) =>
               /\ n \in Names(Written)
               /\ ConfigOf(Written, n)["command"] = command_list

\* an opencode.json entry whose command array has arguments was read and
\* written back
C24_Witness ==
  /\ SelfTranslated /\ last.platform = OPENCODE
  /\ \E n \in Names(OpenCodeTable(last.pre)) :
       /\ LocalEntry(ConfigOf(OpenCodeTable(last.pre), n))
       /\ Len(Get(ConfigOf(OpenCodeTable(last.pre), n), "command", <<>>)) > 2
       /\ ConfigOf(held.servers, n)["args"] = <<"-a", "-b">>

\* the second pass of a self-translation has written
SecondPassDone ==
  /\ last.op = "write" /\ last.n = 4 /\ ~last.dry_run
  /\ last.platform = held.from

\* C26: read_mcp_servers(P) then write_mcp_servers(P, map), done a second time
\* right after a first, succeeds and leaves every file as the first pass left it.
C26_SelfTranslationFixedPoint ==
  SecondPassDone => last.ret = TRUE /\ ~last.raised /\ files = last.pre

\* a second pass of an OpenCode self-translation that wrote servers
C26_Witness ==
  /\ SecondPassDone /\ Written # <<>>
  /\ last.prev.op = "read"
  /\ files = last.pre
  /\ \E n \in Names(Written) : Has(ConfigOf(Written, n), "enabled")

\* C27: on every platform read_mcp_servers returns one provenance record for
\* each name of the map it returns, in the order of the map; a name shadowed by
\* an earlier source and an entry dropped on decode have no record.
C27_ProvenanceMatchesMap ==
  last.op = "read" =>
    /\ Len(last.ret.sources) = Len(last.ret.servers)
    /\ \A i \in 1..Len(last.ret.sources) :
         last.ret.sources[i].name = last.ret.servers[i].name
    /\ Cardinality(Names(last.ret.servers)) = Len(last.ret.servers)

\* a read of a config.toml that kept one table and dropped another
C27_Witness ==
  /\ last.op = "read" /\ last.platform = CODEX
  /\ Len(last.ret.servers) > 0
  /\ Len(CodexTable) > Len(last.ret.servers)

\* a source of the Claude configuration that exists and does not load
BadSource(f) == Exists(f) /\ ~Parseable(f)

\* C28: in read_mcp_servers(CLAUDE_CODE) a malformed or unreadable source, the
\* global file or a plugin file, contributes no entry and raises nothing, and
\* every entry of the other sources is returned: the global file's for the
\* names it defines, the first defining plugin's for the others.
C28_SourceErrorsIsolated ==
  (last.op = "read" /\ last.platform = CLAUDE_CODE) =>
    LET global == Owned(files[CLAUDE_CODE], "mcpServers") IN
    /\ ~last.raised
    /\ Names(last.ret.servers) = Names(global) \cup PluginNames(plugins)
    /\ \A n \in Names(global) : ConfigOf(last.ret.servers, n) = ConfigOf(global, n)
    /\ \A n \in PluginNames(plugins) \ Names(global) :
         ConfigOf(last.ret.servers, n)
           = ConfigOf(plugins[FirstDefining(plugins, n)].data, n)
    /\ \A i \in 1..Len(last.ret.sources) :
         \/ /\ last.ret.sources[i].from = "~/.claude.json"
            /\ last.ret.sources[i].name \in Names(global)
         \/ \E j \in Defining(plugins, last.ret.sources[i].name) :
              last.ret.sources[i].from = plugins[j].plugin

\* a read with a bad global file and a bad first plugin file that returns the
\* server of the second plugin file
C28_Witness ==
  /\ last.op = "read" /\ last.platform = CLAUDE_CODE
  /\ BadSource(files[CLAUDE_CODE])
  /\ Len(plugins) > 1 /\ BadSource(plugins[1]) /\ Parseable(plugins[2])
  /\ Len(last.ret.servers) > 0

\* both invocations have returned and at least one wrote the file
BothDone ==
  /\ DOMAIN procs.st = Procs
  /\ \A i \in Procs : procs.st[i].pc = "done"
  /\ procs.order # <<>>

\* the invocation that wrote last
LastWriter == procs.st[procs.order[Len(procs.order)]]

\* C25: when two invocations that read and rewrite the same global file
\* interleave, the file's owned key is in the end the one the invocation that
\* wrote last produced, and every sibling top-level key the file had before
\* them is still there with its value.
C25_LastWriterWins ==
  BothDone =>
    LET p == procs.platform
        f == files[p]
        start == last.pre[p]
    IN  /\ Parseable(f)
        /\ LastWriter.op = "write" =>
             Has(f.data, OwnedKey(p))
             /\ f.data[OwnedKey(p)] = NativeMap(p, LastWriter.servers)
        /\ LastWriter.op = "clean" => ~Has(f.data, OwnedKey(p))
        /\ Parseable(start) =>
             \A k \in DOMAIN start.data \ {OwnedKey(p)} :
               Has(f.data, k) /\ f.data[k] = start.data[k]


\* the real run of the sync that ended, from the state it started in
RealSync == sync_skills(last.fork_platforms, FALSE, last.preSkills)

\* C22: a dry-run sync_skills only reports: it returns, it creates, deletes
\* and copies nothing on any fork platform, and its master_skills and per-fork
\* counts are those the real run from the same state returns.
C22_SyncDryRunOnlyReports ==
  (last.op = "sync_skills" /\ last.dry_run) =>
    /\ ~last.raised
    /\ skills.forks = last.preSkills.forks
    /\ ~RealSync.raised
    /\ RealSync.ret.master_skills = last.ret.master_skills
    /\ RealSync.ret.synced_to = last.ret.synced_to

\* C29: when restore_skills returns, dry run or not, every listed skill was
\* counted once, as restored or as an error: restored + len(errors) == total.
C29_RestoreAccountsForEverySkill ==
  (last.op = "restore_skills" /\ ~last.raised) =>
    /\ last.ret.total = Len(last.preSkills.backup)
    /\ last.ret.restored + Len(last.ret.errors) = last.ret.total

\* a real restore ended with one skill copied and one that could not be
C29_Witness ==
  /\ last.op = "restore_skills"
  /\ ~last.dry_run
  /\ ~last.raised
  /\ last.ret.restored = 1
  /\ Len(last.ret.errors) = 1
  /\ \E n \in SkillNames :
       /\ n \in last.preSkills.target.stuck
       /\ last.ret.errors = <<n>>
       /\ \E i \in 1..Len(last.preSkills.backup) :
            last.preSkills.backup[i] = BackupEntry(n, TRUE, TRUE)

====
